---- MODULE Spec2Model ----
(***************************************************************************)
(* A model of src/main.rs: the markup repair pass (fix_img_tags and the    *)
(* two literal replacements in main), the text normalizers, the question   *)
(* extractor parse_questions with its forward cursor, and the              *)
(* fetch-if-absent image cache download_image.                             *)
(*                                                                         *)
(* Strings are sequences of one-character strings, so that replacing,      *)
(* trimming, splitting and matching are computed character by character.   *)
(***************************************************************************)
EXTENDS Integers, Sequences, FiniteSets, TLC

VARIABLES
    \* markup repair (main, lines 29-31, and fix_img_tags)
    rmode,      \* "pass": the whole repair pass; "img": fix_img_tags alone
    rin,        \* the document text read from the page
    rout1,      \* the text after one application
    rout2,      \* the text after applying it again to rout1
    rstage,     \* "raw" | "once" | "twice" | "idle"
    \* text normalizer
    nin,        \* the input string
    nfn,        \* which function was applied: "none" | "string" | "title" | "answer"
    nout,       \* its result
    \* question extractor (parse_questions)
    root,       \* the top-level child elements of the parsed document
    pos,        \* how many elements element_iter has yielded so far
    pc,         \* "scan" | "find_body" | "find_p" | "done" | "failed" | "idle"
    questions,  \* the local vector of assembled questions
    question_title, \* the title of the question being assembled
    img_src,    \* the image source of the question being assembled
    result,     \* what parse_questions returned
    taken,      \* history: the indices element_iter yielded, in order
    resolved,   \* history: per marker found, the indices that resolved it
    \* image cache (download_image)
    files,      \* the names that exist under output/images
    calls       \* history: one record per download_image call

rvars == <<rmode, rin, rout1, rout2, rstage>>
nvars == <<nin, nfn, nout>>
pvars == <<root, pos, pc, questions, question_title, img_src, result, taken, resolved>>
dvars == <<files, calls>>
vars == <<rvars, nvars, pvars, dvars>>

(***************************************************************************)
(* Strings                                                                 *)
(***************************************************************************)
NL == "\n"
TAB == "\t"

RECURSIVE Concat(_)
Concat(ss) == IF ss = <<>> THEN <<>> ELSE Head(ss) \o Concat(Tail(ss))

\* all sequences over S of length at most n
SeqsUpTo(S, n) == UNION {[1..k -> S] : k \in 0..n}

StartsWithAt(s, i, pat) ==
    /\ i + Len(pat) - 1 <= Len(s)
    /\ \A k \in 1..Len(pat) : s[i + k - 1] = pat[k]

\* str::replace(from, to): every non-overlapping occurrence, left to right
RECURSIVE ReplaceFrom(_, _, _, _)
ReplaceFrom(s, i, from, to) ==
    IF i > Len(s) THEN <<>>
    ELSE IF StartsWithAt(s, i, from)
         THEN to \o ReplaceFrom(s, i + Len(from), from, to)
         ELSE <<s[i]>> \o ReplaceFrom(s, i + 1, from, to)

str_replace(s, from, to) == ReplaceFrom(s, 1, from, to)

(***************************************************************************)
(* Markup repair                                                           *)
(***************************************************************************)
IMG_OPEN == <<"<", "i", "m", "g">>
NBSP == <<"&", "n", "b", "s", "p", ";">>
BR == <<"<", "b", "r", ">">>
BR_CLOSED == <<"<", "b", "r", "/", ">">>

NoMatch == [found |-> FALSE, body_end |-> 0, end |-> 0]

\* a mutant of DotAll: `.` without the s flag does not match a line break
DotNoNewline(c) == c # NL

\* (?s:.) matches every character, the line break included
DotAll(c) == TRUE

\* `(?P<body>(?s:.)*?)/?>` from position p on: the lazy body is tried at every
\* length from the shortest; at each, `/?` first takes a slash, then gives it up
RECURSIVE ImgTail(_, _)
ImgTail(s, p) ==
    IF p > Len(s) THEN NoMatch
    ELSE IF s[p] = "/" /\ p + 1 <= Len(s) /\ s[p + 1] = ">"
         THEN [found |-> TRUE, body_end |-> p - 1, end |-> p + 1]
    ELSE IF s[p] = ">"
         THEN [found |-> TRUE, body_end |-> p - 1, end |-> p]
    ELSE IF DotAll(s[p]) THEN ImgTail(s, p + 1)
    ELSE NoMatch

\* the regex `<img(?P<body>(?s:.)*?)/?>` tried at position i
ImgMatchAt(s, i) ==
    IF StartsWithAt(s, i, IMG_OPEN) THEN ImgTail(s, i + Len(IMG_OPEN)) ELSE NoMatch

\* a mutant of ImgReplacement: the replacement closes the tag without looking
\* at a slash the tag already has, as for the pattern `<img(?P<body>(?s:.)*?)>`
ImgReplacementKeepSlash(s, i, m) ==
    IMG_OPEN \o SubSeq(s, i + Len(IMG_OPEN), m.end - 1) \o <<"/", ">">>

\* the replacement "<img$body/>" of the match m that starts at i
ImgReplacement(s, i, m) ==
    IMG_OPEN \o SubSeq(s, i + Len(IMG_OPEN), m.body_end) \o <<"/", ">">>

\* Regex::replace_all: leftmost matches, none overlapping, the rest copied
RECURSIVE ImgReplaceAllFrom(_, _)
ImgReplaceAllFrom(s, i) ==
    IF i > Len(s) THEN <<>>
    ELSE LET m == ImgMatchAt(s, i)
         IN  IF m.found
             THEN ImgReplacement(s, i, m) \o ImgReplaceAllFrom(s, m.end + 1)
             ELSE <<s[i]>> \o ImgReplaceAllFrom(s, i + 1)

fix_img_tags(input) == ImgReplaceAllFrom(input, 1)

\* main, lines 30-31
repair_pass(content) ==
    fix_img_tags(str_replace(str_replace(content, NBSP, <<" ">>), BR, BR_CLOSED))

Repaired(mode, s) == IF mode = "pass" THEN repair_pass(s) ELSE fix_img_tags(s)

\* the pieces documents are put together from
MaxFrags == 4
Frags ==
    { IMG_OPEN, <<"/">>, <<">">>, <<NL>>, <<"a">>,
      NBSP, <<"&", "n", "b">>, <<"s", "p", ";">>,
      BR, <<"<", "b">>, <<"r", ">">> }
RepairInputs == {Concat(fs) : fs \in SeqsUpTo(Frags, MaxFrags)}

RepairIdle ==
    /\ rmode = "img" /\ rin = <<>> /\ rout1 = <<>> /\ rout2 = <<>> /\ rstage = "idle"

RepairInit ==
    /\ rmode \in {"pass", "img"}
    /\ rin \in RepairInputs
    /\ rout1 = <<>>
    /\ rout2 = <<>>
    /\ rstage = "raw"

RepairOnce ==
    /\ rstage = "raw"
    /\ rout1' = Repaired(rmode, rin)
    /\ rstage' = "once"
    /\ UNCHANGED <<rmode, rin, rout2>>
    /\ UNCHANGED <<nvars, pvars, dvars>>

RepairAgain ==
    /\ rstage = "once"
    /\ rout2' = Repaired(rmode, rout1)
    /\ rstage' = "twice"
    /\ UNCHANGED <<rmode, rin, rout1>>
    /\ UNCHANGED <<nvars, pvars, dvars>>

(***************************************************************************)
(* Text normalizer                                                         *)
(***************************************************************************)
\* char::is_whitespace, on the characters of the model
IsWhitespace(c) == c \in {" ", NL, TAB}
\* \d
IsDigit(c) == c \in {"1", "2"}
\* [[:alpha:]]
Letters == {"a", "b", "x", "y", "z", "B", "T"}
IsAlpha(c) == c \in Letters

RECURSIVE trim_start(_)
trim_start(s) ==
    IF s # <<>> /\ IsWhitespace(Head(s)) THEN trim_start(Tail(s)) ELSE s

RECURSIVE trim_end(_)
trim_end(s) ==
    IF s # <<>> /\ IsWhitespace(s[Len(s)]) THEN trim_end(SubSeq(s, 1, Len(s) - 1)) ELSE s

\* str::trim
trim(s) == trim_end(trim_start(s))

\* str::split_whitespace: the maximal runs of non-whitespace, none of them empty;
\* cur is the word being read
RECURSIVE SplitWsFrom(_, _, _)
SplitWsFrom(s, i, cur) ==
    IF i > Len(s) THEN (IF cur = <<>> THEN <<>> ELSE <<cur>>)
    ELSE IF IsWhitespace(s[i])
         THEN (IF cur = <<>> THEN <<>> ELSE <<cur>>) \o SplitWsFrom(s, i + 1, <<>>)
         ELSE SplitWsFrom(s, i + 1, Append(cur, s[i]))

split_whitespace(s) == SplitWsFrom(s, 1, <<>>)

\* Itertools::join(sep)
RECURSIVE join(_, _)
join(ws, sep) ==
    IF ws = <<>> THEN <<>>
    ELSE IF Len(ws) = 1 THEN ws[1]
    ELSE ws[1] \o sep \o join(Tail(ws), sep)

\* a mutant of normalize_string: the split is on the space character only
\* (split(' ')), which keeps the empty pieces between adjacent spaces
RECURSIVE SplitSpaceFrom(_, _, _)
SplitSpaceFrom(s, i, cur) ==
    IF i > Len(s) THEN <<cur>>
    ELSE IF s[i] = " "
         THEN <<cur>> \o SplitSpaceFrom(s, i + 1, <<>>)
         ELSE SplitSpaceFrom(s, i + 1, Append(cur, s[i]))
normalize_string_split_space(s) ==
    trim(join(SplitSpaceFrom(str_replace(s, <<NL>>, <<" ">>), 1, <<>>), <<" ">>))

normalize_string(s) ==
    trim(join(split_whitespace(str_replace(s, <<NL>>, <<" ">>)), <<" ">>))

\* the length of the match of `^[\d.]+` in t (greedy), 0 when it does not match
RECURSIVE TitleRunFrom(_, _)
TitleRunFrom(t, i) ==
    IF i <= Len(t) /\ (IsDigit(t[i]) \/ t[i] = ".") THEN 1 + TitleRunFrom(t, i + 1) ELSE 0
TitleMatchLen(t) == TitleRunFrom(t, 1)

\* a mutant of AnswerMatchLen: the pattern asks for a space after the dot
AnswerMatchLenNeedsSpace(t) ==
    IF Len(t) >= 3 /\ IsAlpha(t[1]) /\ t[2] = "." /\ t[3] = " " THEN 3 ELSE 0

\* the length of the match of `^[[:alpha:]]\.` in t, 0 when it does not match
AnswerMatchLen(t) ==
    IF Len(t) >= 2 /\ IsAlpha(t[1]) /\ t[2] = "." THEN 2 ELSE 0

\* Regex::replace(t, ""), for a pattern anchored at the start: the match is cut
CutPrefix(t, n) == SubSeq(t, n + 1, Len(t))

normalize_question_title(title) ==
    LET t == trim(title) IN normalize_string(CutPrefix(t, TitleMatchLen(t)))

normalize_answer_text(text) ==
    LET t == trim(text) IN normalize_string(CutPrefix(t, AnswerMatchLen(t)))

MaxNormLen == 4
NormChars == {" ", NL, TAB, "a", "B", "1", "."}
NormInputs == SeqsUpTo(NormChars, MaxNormLen)

NormIdle == nin = <<>> /\ nfn = "idle" /\ nout = <<>>

NormInit == nin \in NormInputs /\ nfn = "none" /\ nout = <<>>

NormalizeString ==
    /\ nfn = "none"
    /\ nfn' = "string"
    /\ nout' = normalize_string(nin)
    /\ UNCHANGED nin
    /\ UNCHANGED <<rvars, pvars, dvars>>

NormalizeQuestionTitle ==
    /\ nfn = "none"
    /\ nfn' = "title"
    /\ nout' = normalize_question_title(nin)
    /\ UNCHANGED nin
    /\ UNCHANGED <<rvars, pvars, dvars>>

NormalizeAnswerText ==
    /\ nfn = "none"
    /\ nfn' = "answer"
    /\ nout' = normalize_answer_text(nin)
    /\ UNCHANGED nin
    /\ UNCHANGED <<rvars, pvars, dvars>>

(***************************************************************************)
(* The parsed document (minidom): elements and text nodes                  *)
(***************************************************************************)
QUESTION_CLASS == "has-luminous-vivid-orange-color has-text-color"
IMAGE_CLASS == "wp-block-image"

\* Option: None is the empty sequence, Some(v) the sequence of v alone
None == <<>>
Some(v) == <<v>>

NoAttrs == [class |-> None, src |-> None]
Text(t) == [kind |-> "text", name |-> "", attrs |-> NoAttrs, text |-> t, nodes |-> <<>>]
Element(n, a, ns) == [kind |-> "element", name |-> n, attrs |-> a, text |-> <<>>, nodes |-> ns]

\* Element::attr
attr(el, key) == el.attrs[key]

\* Element::texts followed by join(" "): the element's own text nodes
RECURSIVE TextsOf(_)
TextsOf(ns) ==
    IF ns = <<>> THEN <<>>
    ELSE (IF Head(ns).kind = "text" THEN <<Head(ns).text>> ELSE <<>>) \o TextsOf(Tail(ns))
texts_joined(el) == join(TextsOf(el.nodes), <<" ">>)

\* Element::get_child(name, NSChoice::Any): the first child element of that name
RECURSIVE FirstChildNamed(_, _)
FirstChildNamed(ns, n) ==
    IF ns = <<>> THEN None
    ELSE IF Head(ns).kind = "element" /\ Head(ns).name = n THEN Some(Head(ns))
    ELSE FirstChildNamed(Tail(ns), n)
get_child(el, n) == FirstChildNamed(el.nodes, n)

(***************************************************************************)
(* Question extractor                                                      *)
(***************************************************************************)
MSG_NO_ELEMENT == "no html elements after question title"
MSG_NO_FIGURE == "image div does not have inner figure tag"
MSG_NO_IMG == "figure tag does not have inner img tag"
MSG_NO_SRC == "img tag does not have src attr"
MSG_NO_P == "expected to have questions p tag"

is_image_element(e) == e.name = "div" /\ attr(e, "class") = Some(IMAGE_CLASS)

is_question(e) == e.name = "p" /\ attr(e, "class") = Some(QUESTION_CLASS)

\* a mutant of is_body: the lookahead after the title stops at paragraphs only
is_body_only_p(el) == el.name = "p"

\* the predicate of the first find, lines 95-99
is_body(el) == is_image_element(el) \/ el.name = "p"

\* lines 84-91
RECURSIVE TitleParts(_)
TitleParts(ns) ==
    IF ns = <<>> THEN <<>>
    ELSE <<IF Head(ns).kind = "element" THEN texts_joined(Head(ns)) ELSE Head(ns).text>>
         \o TitleParts(Tail(ns))
title_of(el) == normalize_question_title(join(TitleParts(el.nodes), <<" ">>))

\* a mutant of keeps_choice: the filter of line 135 left out
keeps_choice_all(choice) == TRUE

\* line 135
keeps_choice(choice) == choice.text # <<>>

\* the closure of flat_map, lines 125-134
choice_of(node) ==
    IF node.kind = "element"
    THEN (IF node.name = "strong"
          THEN Some([text |-> normalize_answer_text(texts_joined(node)), is_answer |-> TRUE])
          ELSE None)
    ELSE Some([text |-> normalize_answer_text(node.text), is_answer |-> FALSE])

\* lines 123-136
RECURSIVE ChoicesFrom(_)
ChoicesFrom(ns) ==
    IF ns = <<>> THEN <<>>
    ELSE SelectSeq(choice_of(Head(ns)), keeps_choice) \o ChoicesFrom(Tail(ns))
answer_choices_of(el) == ChoicesFrom(el.nodes)

\* a mutant of context_error: the title of the question is added to the message
context_error_with_title(msg) == [msg |-> msg, args |-> <<question_title>>]

\* Option::context(&'static str): the error is the fixed text, nothing formatted in
context_error(msg) == [msg |-> msg, args |-> <<>>]

\* lines 103-109; the result is the src, or the message of the lookup that failed
image_src_of(el) ==
    LET figure == get_child(el, "figure") IN
    IF figure = None THEN [src |-> None, err |-> Some(MSG_NO_FIGURE)]
    ELSE LET img == get_child(figure[1], "img") IN
         IF img = None THEN [src |-> None, err |-> Some(MSG_NO_IMG)]
         ELSE LET src == attr(img[1], "src") IN
              IF src = None THEN [src |-> None, err |-> Some(MSG_NO_SRC)]
              ELSE [src |-> src, err |-> None]

Running == [ok |-> None, err |-> None]

\* a mutant of failure: the questions assembled so far are returned (a `break`
\* out of the loop in place of `?`)
failure_best_effort(msg) == [ok |-> Some(questions), err |-> None]

\* the `?` after context: parse_questions returns the error and nothing else
failure(msg) == [ok |-> None, err |-> Some(context_error(msg))]

\* a mutant of cursor_after: the found element is looked at without being taken
\* from the iterator (a peek)
cursor_after_peek(p) == p - 1

\* element_iter.by_ref().find(..) leaves the shared cursor after the element found
cursor_after(p) == p

\* the elements pages are put together from
SRC_A == <<"u", "/", "a">>
ELEM_Q ==
    Element("p", [class |-> Some(QUESTION_CLASS), src |-> None],
            << Element("span", NoAttrs, <<Text(<<"1", ".">>)>>), Text(<<"T", NL>>) >>)
ELEM_A ==
    Element("p", NoAttrs,
            << Text(<<"a", ".", "x">>), Element("br", NoAttrs, <<>>),
               Element("strong", NoAttrs, <<Text(<<"B", ".", " ", "y">>)>>),
               Text(<<" ">>), Element("em", NoAttrs, <<Text(<<"z">>)>>) >>)
ELEM_A2 ==
    Element("p", NoAttrs,
            << Element("strong", NoAttrs, <<Text(<<"x">>)>>),
               Element("strong", NoAttrs, <<Text(<<"a", ".">>)>>),
               Element("strong", NoAttrs, <<Text(<<"y">>), Element("em", NoAttrs, <<>>), Text(<<"z">>)>>) >>)
ELEM_IMG ==
    Element("div", [class |-> Some(IMAGE_CLASS), src |-> None],
            << Text(<<NL>>),
               Element("figure", NoAttrs,
                       <<Element("img", [class |-> None, src |-> Some(SRC_A)], <<>>)>>) >>)
ELEM_IMG_NO_FIGURE ==
    Element("div", [class |-> Some(IMAGE_CLASS), src |-> None],
            <<Element("img", [class |-> None, src |-> Some(SRC_A)], <<>>)>>)
ELEM_IMG_NO_IMG ==
    Element("div", [class |-> Some(IMAGE_CLASS), src |-> None],
            <<Element("figure", NoAttrs, <<Element("a", NoAttrs, <<>>)>>)>>)
ELEM_IMG_NO_SRC ==
    Element("div", [class |-> Some(IMAGE_CLASS), src |-> None],
            <<Element("figure", NoAttrs, <<Element("img", NoAttrs, <<>>)>>)>>)
ELEM_OTHER == Element("div", NoAttrs, <<Text(<<"x">>)>>)

MaxElems == 4
ElemPool ==
    { ELEM_Q, ELEM_A, ELEM_A2, ELEM_IMG, ELEM_IMG_NO_FIGURE, ELEM_IMG_NO_IMG,
      ELEM_IMG_NO_SRC, ELEM_OTHER }

ParseIdle ==
    /\ root = <<>> /\ pos = 0 /\ pc = "idle" /\ questions = <<>>
    /\ question_title = <<>> /\ img_src = None /\ result = Running
    /\ taken = <<>> /\ resolved = <<>>

\* lines 74-76
ParseInit ==
    /\ root \in SeqsUpTo(ElemPool, MaxElems)
    /\ pos = 0
    /\ pc = "scan"
    /\ questions = <<>>
    /\ question_title = <<>>
    /\ img_src = None
    /\ result = Running
    /\ taken = <<>>
    /\ resolved = <<>>

\* lines 138-142, with the history of which elements resolved the marker
PushQuestion(el, src, at) ==
    /\ questions' = Append(questions,
                           [title |-> question_title, img_src |-> src,
                            answer_choices |-> answer_choices_of(el)])
    /\ resolved' = [resolved EXCEPT ![Len(resolved)].answer = at,
                                    ![Len(resolved)].body =
                                        IF @ = 0 THEN at ELSE @]
    /\ pos' = cursor_after(at)
    /\ pc' = "scan"

\* one turn of `while let Some(next) = element_iter.next()`, lines 78-91, and
\* the return of line 145 when the iterator is exhausted
ScanNext ==
    /\ UNCHANGED <<rvars, nvars, dvars>>
    /\ pc = "scan"
    /\ IF pos >= Len(root)
       THEN /\ pc' = "done"
            /\ result' = [ok |-> Some(questions), err |-> None]
            /\ UNCHANGED <<root, pos, questions, question_title, img_src, taken, resolved>>
       ELSE LET next == root[pos + 1] IN
            /\ pos' = pos + 1
            /\ taken' = Append(taken, pos + 1)
            /\ IF is_question(next)
               THEN /\ question_title' = title_of(next)
                    /\ resolved' = Append(resolved, [marker |-> pos + 1, body |-> 0, answer |-> 0])
                    /\ pc' = "find_body"
               ELSE UNCHANGED <<question_title, resolved, pc>>
            /\ UNCHANGED <<root, questions, img_src, result>>

\* one element taken by the find of lines 93-100, and what follows when it is
\* the one looked for (lines 102-110 or 119-142)
FindBodyNext ==
    /\ UNCHANGED <<rvars, nvars, dvars>>
    /\ pc = "find_body"
    /\ IF pos >= Len(root)
       THEN /\ pc' = "failed"
            /\ result' = failure(MSG_NO_ELEMENT)
            /\ UNCHANGED <<root, pos, questions, question_title, img_src, taken, resolved>>
       ELSE LET el == root[pos + 1] IN
            /\ taken' = Append(taken, pos + 1)
            /\ UNCHANGED <<root, question_title>>
            /\ IF ~is_body(el)
               THEN /\ pos' = pos + 1
                    /\ UNCHANGED <<pc, questions, img_src, result, resolved>>
               ELSE IF is_image_element(el)
               THEN LET found == image_src_of(el) IN
                    /\ pos' = pos + 1
                    /\ UNCHANGED questions
                    /\ resolved' = [resolved EXCEPT ![Len(resolved)].body = pos + 1]
                    /\ IF found.err # None
                       THEN /\ pc' = "failed"
                            /\ result' = failure(found.err[1])
                            /\ UNCHANGED img_src
                       ELSE /\ pc' = "find_p"
                            /\ img_src' = found.src
                            /\ UNCHANGED result
               ELSE /\ PushQuestion(el, None, pos + 1)
                    /\ img_src' = None
                    /\ UNCHANGED result

\* one element taken by the find of lines 111-117, and lines 118-142 when it is
\* a paragraph
FindPNext ==
    /\ UNCHANGED <<rvars, nvars, dvars>>
    /\ pc = "find_p"
    /\ IF pos >= Len(root)
       THEN /\ pc' = "failed"
            /\ result' = failure(MSG_NO_P)
            /\ UNCHANGED <<root, pos, questions, question_title, img_src, taken, resolved>>
       ELSE LET el == root[pos + 1] IN
            /\ taken' = Append(taken, pos + 1)
            /\ UNCHANGED <<root, question_title, img_src, result>>
            /\ IF el.name = "p"
               THEN PushQuestion(el, img_src, pos + 1)
               ELSE /\ pos' = pos + 1
                    /\ UNCHANGED <<pc, questions, resolved>>

(***************************************************************************)
(* Image cache                                                             *)
(***************************************************************************)
OUTPUT_DIR == <<"o", "u", "t", "p", "u", "t">>
IMAGES_PREFIX == <<"i", "m", "a", "g", "e", "s", "/">>

\* the piece of s after its last separator: what rsplit(sep).next() yields; the
\* whole of s when it holds no separator
RECURSIVE LastPieceFrom(_, _, _)
LastPieceFrom(s, i, sep) ==
    IF i = 0 \/ s[i] = sep THEN SubSeq(s, i + 1, Len(s)) ELSE LastPieceFrom(s, i - 1, sep)

RECURSIVE FirstPieceFrom(_, _, _)
FirstPieceFrom(s, i, sep) ==
    IF i > Len(s) \/ s[i] = sep THEN SubSeq(s, 1, i - 1) ELSE FirstPieceFrom(s, i + 1, sep)

\* a mutant of extract_image_name: split in place of rsplit, the first piece
extract_image_name_first(url) == Some(FirstPieceFrom(url, 1, "/"))

\* lines 215-221: rsplit always yields a piece, so the context never applies
extract_image_name(url) == Some(LastPieceFrom(url, Len(url), "/"))

\* line 204
img_src_of(name) == IMAGES_PREFIX \o name
\* line 205
output_path_of(name) == OUTPUT_DIR \o <<"/">> \o img_src_of(name)

\* the directory the images are written to
IMAGES_DIR == output_path_of(<<>>)

\* std::fs::write creates the file when its directory exists and the path
\* names a file in it
CanWrite(path) == IMAGES_DIR \in files /\ path # IMAGES_DIR

\* line 207
must_fetch(path) == path \notin files

MaxCalls == 3
UrlPool ==
    { <<"h", "/", "a", "/", "x">>, <<"h", "/", "b", "/", "x">>,
      <<"h", "/", "y">>, <<"x">>, <<"h", "/">> }
\* what the network does with a request: the body, a transport error, or a
\* response whose status is an error
NetOutcomes == {"ok", "transport_error", "status_error"}

DownloadIdle == files = {} /\ calls = <<>>

DownloadInit ==
    /\ files \in { {}, {IMAGES_DIR}, {IMAGES_DIR, output_path_of(<<"x">>)} }
    /\ calls = <<>>

\* lines 201-213, with what the network answers should it be asked
download_image(url, net) ==
    LET name == extract_image_name(url)[1]
        img_src_local == img_src_of(name)
        output_path == output_path_of(name)
        fetched == must_fetch(output_path)
        wrote == fetched /\ net = "ok" /\ CanWrite(output_path)
        ret == IF ~fetched \/ wrote THEN [ok |-> Some(img_src_local), err |-> None]
               ELSE IF net # "ok" THEN [ok |-> None, err |-> Some(net)]
               ELSE [ok |-> None, err |-> Some("write_error")]
    IN  /\ files' = IF wrote THEN files \cup {output_path} ELSE files
        /\ calls' = Append(calls, [url |-> url, net |-> net, before |-> files,
                                   fetched |-> fetched, wrote |-> wrote,
                                   after |-> files', ret |-> ret])

DownloadImage ==
    /\ UNCHANGED <<rvars, nvars, pvars>>
    /\ Len(calls) < MaxCalls
    /\ \E url \in UrlPool, net \in NetOutcomes : download_image(url, net)

(***************************************************************************)
(* Specifications                                                          *)
(***************************************************************************)

\* the repair pass applied to a document, and again to its own output
InitRepair == RepairInit /\ NormIdle /\ ParseIdle /\ DownloadIdle
NextRepair == RepairOnce \/ RepairAgain
SpecRepair == InitRepair /\ [][NextRepair]_vars

\* the normalizers applied to a string
InitNorm == RepairIdle /\ NormInit /\ ParseIdle /\ DownloadIdle
NextNorm == NormalizeString \/ NormalizeQuestionTitle \/ NormalizeAnswerText
SpecNorm == InitNorm /\ [][NextNorm]_vars

\* parse_questions on a document
Init == RepairIdle /\ NormIdle /\ ParseInit /\ DownloadIdle
Next == ScanNext \/ FindBodyNext \/ FindPNext
Spec == Init /\ [][Next]_vars

\* download_image called for one reference after another
InitDownload == RepairIdle /\ NormIdle /\ ParseIdle /\ DownloadInit
NextDownload == DownloadImage
SpecDownload == InitDownload /\ [][NextDownload]_vars

(***************************************************************************)
(* Properties of the markup repair                                         *)
(***************************************************************************)
Contains(s, pat) == \E i \in 1..Len(s) : StartsWithAt(s, i, pat)

\* the positions of the tag-closes that end an image tag of d: a `>` that is
\* the first one after some `<img`
ImgClosers(d) ==
    { j \in 1..Len(d) :
        /\ d[j] = ">"
        /\ \E i \in 1..Len(d) :
              /\ StartsWithAt(d, i, IMG_OPEN)
              /\ i + Len(IMG_OPEN) <= j
              /\ \A k \in (i + Len(IMG_OPEN))..(j - 1) : d[k] # ">" }

\* the image tags of d that do not end in `/>`
Unclosed(d) == {j \in ImgClosers(d) : d[j - 1] # "/"}

\* out is d with one slash put before each tag-close in at, and nothing else changed
SlashesInserted(d, at, out) ==
    /\ Len(out) = Len(d) + Cardinality(at)
    /\ \A i \in 1..Len(d) : out[i + Cardinality({j \in at : j <= i})] = d[i]
    /\ \A j \in at : out[j + Cardinality({k \in at : k < j})] = "/"

\* C1: the repair pass applied to its own output gives that output again, and
\* so does fix_img_tags alone: no tag gains a second slash on the second run.
C1_RepairIdempotent == rstage = "twice" => rout2 = rout1

C1_Witness ==
    /\ rstage = "twice"
    /\ rmode = "pass"
    /\ Contains(rin, NBSP)
    /\ Unclosed(rin) # {}
    /\ rout1 # rin

\* C2: fix_img_tags puts one slash before the tag-close of every image tag
\* that does not already end in `/>`, the tag body running to the first `>`
\* after `<img`, line breaks included; image tags that end in `/>` and all the
\* text outside the image tags are copied unchanged.
C2_ImgTagsClosed ==
    (rmode = "img" /\ rstage \in {"once", "twice"}) =>
        /\ SlashesInserted(rin, Unclosed(rin), rout1)
        /\ Unclosed(rout1) = {}

C2_Witness ==
    /\ rmode = "img"
    /\ rstage = "once"
    /\ \E j \in Unclosed(rin) :
          /\ j < Len(rin)
          /\ \E i \in 1..j :
                /\ StartsWithAt(rin, i, IMG_OPEN)
                /\ \A k \in (i + 4)..(j - 1) : rin[k] # ">"
                /\ \E k \in (i + 4)..(j - 1) : rin[k] = NL
    /\ rout1 # rin

(***************************************************************************)
(* Properties of the text normalizer                                       *)
(***************************************************************************)
\* s without its leading and trailing whitespace
Trimmed(s) ==
    LET inked == {i \in 1..Len(s) : ~IsWhitespace(s[i])} IN
    IF inked = {} THEN <<>>
    ELSE SubSeq(s, CHOOSE a \in inked : \A i \in inked : a <= i,
                   CHOOSE b \in inked : \A i \in inked : i <= b)

IsDigitOrDot(c) == c \in {"1", "2", "."}
IsLetter(c) == c \in {"a", "b", "x", "y", "z", "B", "T"}

\* C3: whichever of the three normalizers is applied, to whatever string, its
\* output holds no newline and no two consecutive spaces and neither starts
\* nor ends with a space.
C3_WhitespaceCollapsed ==
    nfn \in {"string", "title", "answer"} =>
        /\ \A i \in 1..Len(nout) : nout[i] # NL
        /\ \A i \in 1..(Len(nout) - 1) : ~(nout[i] = " " /\ nout[i + 1] = " ")
        /\ nout # <<>> => (nout[1] # " " /\ nout[Len(nout)] # " ")

C3_Witness ==
    /\ nfn = "string"
    /\ nin = <<" ", NL, " ", "a">>
    /\ nout = <<"a">>

\* C4: normalize_question_title gives the whitespace collapse of the trimmed
\* input without its leading run of digits and dots, normalize_answer_text the
\* whitespace collapse of the trimmed input without a leading letter and dot;
\* with no such prefix both give the whitespace collapse of the input. Nothing
\* after the prefix is removed.
C4_PrefixStripped ==
    LET t == Trimmed(nin) IN
    /\ nfn = "title" =>
          \E k \in 0..Len(t) :
             /\ \A i \in 1..k : IsDigitOrDot(t[i])
             /\ k < Len(t) => ~IsDigitOrDot(t[k + 1])
             /\ nout = normalize_string(SubSeq(t, k + 1, Len(t)))
             /\ k = 0 => nout = normalize_string(nin)
    /\ nfn = "answer" =>
          IF Len(t) >= 2 /\ IsLetter(t[1]) /\ t[2] = "."
          THEN nout = normalize_string(SubSeq(t, 3, Len(t)))
          ELSE nout = normalize_string(nin)

C4_Witness ==
    /\ nfn = "answer"
    /\ nin = <<" ", "B", ".", "a">>
    /\ nout = <<"a">>

(***************************************************************************)
(* Properties of the image cache                                           *)
(***************************************************************************)
\* the part of url after its last slash, the whole of it when it has none
FinalSegment(url) ==
    LET slashes == {i \in 1..Len(url) : url[i] = "/"} IN
    IF slashes = {} THEN url
    ELSE SubSeq(url, 1 + CHOOSE i \in slashes : \A k \in slashes : k <= i, Len(url))

LocalFile(url) == OUTPUT_DIR \o <<"/">> \o IMAGES_PREFIX \o FinalSegment(url)

\* C7: a call fetches only when no file exists at output/images/<final
\* segment>; after a call has written the file, no later call for a reference
\* with that final segment fetches, and each returns the same local path; a
\* fetch that fails writes nothing.
C7_FetchIfAbsent ==
    \A i \in 1..Len(calls) :
       /\ calls[i].fetched => LocalFile(calls[i].url) \notin calls[i].before
       /\ LocalFile(calls[i].url) \in calls[i].before => ~calls[i].fetched
       /\ (calls[i].fetched /\ calls[i].net # "ok") =>
             (~calls[i].wrote /\ calls[i].after = calls[i].before /\ calls[i].ret.ok = None)
       /\ \A j \in 1..(i - 1) :
             (calls[j].wrote /\ FinalSegment(calls[j].url) = FinalSegment(calls[i].url)) =>
                /\ ~calls[i].fetched
                /\ calls[i].ret = calls[j].ret
                /\ calls[i].ret.ok = Some(IMAGES_PREFIX \o FinalSegment(calls[i].url))

C7_Witness ==
    /\ Len(calls) = 3
    /\ calls[1].fetched /\ calls[1].net = "status_error" /\ ~calls[1].wrote
    /\ calls[2].url = calls[1].url /\ calls[2].fetched /\ calls[2].wrote
    /\ calls[3].url # calls[2].url
    /\ FinalSegment(calls[3].url) = FinalSegment(calls[2].url)
    /\ ~calls[3].fetched
    /\ calls[3].ret = calls[2].ret

(***************************************************************************)
(* Properties of the question extractor                                    *)
(***************************************************************************)
IsParagraph(el) == el.name = "p"
IsImageContainer(el) == el.name = "div" /\ el.attrs.class = <<IMAGE_CLASS>>

Paragraphs == {j \in 1..Len(root) : IsParagraph(root[j])}
Containers == {j \in 1..Len(root) : IsImageContainer(root[j])}

Least(S) == CHOOSE a \in S : \A b \in S : a <= b

\* the first index of S after i, 0 when there is none
FirstAfter(i, S) == IF \E j \in S : j > i THEN Least({j \in S : j > i}) ELSE 0

\* the first top-level element after index m that is an image container or a
\* paragraph, 0 when there is none
BodyOf(m) == FirstAfter(m, Paragraphs \cup Containers)

ChildrenNamed(el, n) ==
    {i \in 1..Len(el.nodes) : el.nodes[i].kind = "element" /\ el.nodes[i].name = n}
HasChild(el, n) == ChildrenNamed(el, n) # {}
ChildNamed(el, n) == el.nodes[Least(ChildrenNamed(el, n))]

\* the expectation the marker at index m finds violated, "" when it finds none
Violated(m) ==
    LET e == BodyOf(m) IN
    IF e = 0 THEN "no html elements after question title"
    ELSE IF IsParagraph(root[e]) THEN ""
    ELSE IF ~HasChild(root[e], "figure") THEN "image div does not have inner figure tag"
    ELSE IF ~HasChild(ChildNamed(root[e], "figure"), "img")
         THEN "figure tag does not have inner img tag"
    ELSE IF ChildNamed(ChildNamed(root[e], "figure"), "img").attrs.src = <<>>
         THEN "img tag does not have src attr"
    ELSE IF FirstAfter(e, Paragraphs) = 0 THEN "expected to have questions p tag"
    ELSE ""

\* C5: when the lookahead or a lookup of some question marker fails,
\* parse_questions returns an error that names the expectation violated and
\* no question, whatever it had assembled before; questions are returned only
\* by a run that went through the whole document.
C5_AllOrNothing ==
    /\ result.ok # None => (pc = "done" /\ result.err = None)
    /\ pc = "failed" => (result.ok = None /\ result.err # None)
    /\ pc \in {"done", "failed"} =>
          \A k \in 1..Len(resolved) :
             Violated(resolved[k].marker) # "" =>
                /\ pc = "failed"
                /\ result.ok = None
                /\ result.err # None
                /\ result.err[1].msg = Violated(resolved[k].marker)

C5_Witness ==
    /\ pc = "failed"
    /\ Len(questions) >= 1
    /\ result.ok = None
    /\ result.err # None
    /\ result.err[1].msg = "figure tag does not have inner img tag"

\* C6: with e the first image container or paragraph after a question marker:
\* when e is a paragraph the question has no image and its choices are those
\* of e; when e is an image container the question's image is the src of its
\* figure > img and its choices are those of the first paragraph after e.
C6_ImageBranch ==
    \A k \in 1..Len(questions) :
       LET e == BodyOf(resolved[k].marker)
           q == questions[k]
       IN  /\ e # 0
           /\ IF IsParagraph(root[e])
              THEN /\ q.img_src = <<>>
                   /\ resolved[k].answer = e
                   /\ q.answer_choices = answer_choices_of(root[e])
              ELSE LET a == FirstAfter(e, Paragraphs) IN
                   /\ q.img_src # <<>>
                   /\ HasChild(root[e], "figure")
                   /\ HasChild(ChildNamed(root[e], "figure"), "img")
                   /\ q.img_src = ChildNamed(ChildNamed(root[e], "figure"), "img").attrs.src
                   /\ a # 0
                   /\ resolved[k].answer = a
                   /\ q.answer_choices = answer_choices_of(root[a])

C6_Witness ==
    /\ pc = "done"
    /\ root = <<ELEM_Q, ELEM_IMG, ELEM_IMG_NO_FIGURE, ELEM_A>>
    /\ Len(questions) = 1
    /\ questions[1].img_src = <<SRC_A>>
    /\ resolved[1] = [marker |-> 1, body |-> 2, answer |-> 4]

\* C8: the cursor only moves forward: its position never decreases, no element
\* is taken twice, the elements that resolve one question all come before the
\* marker of the next, no answer paragraph is ever a marker, and when a
\* question is appended the scan goes on right after its answer paragraph.
C8_ForwardCursor ==
    /\ [](/\ \A i, j \in 1..Len(taken) : i < j => taken[i] < taken[j]
          /\ \A k \in 1..Len(resolved) :
                /\ resolved[k].body # 0 => resolved[k].marker < resolved[k].body
                /\ resolved[k].answer # 0 => resolved[k].body <= resolved[k].answer
                /\ k > 1 => (/\ resolved[k - 1].answer # 0
                             /\ resolved[k - 1].answer < resolved[k].marker)
          /\ \A k, l \in 1..Len(resolved) : resolved[k].answer # resolved[l].marker)
    /\ [][/\ pos' >= pos
          /\ Len(questions') > Len(questions) =>
                (pc' = "scan" /\ pos' = resolved'[Len(questions')].answer)
          /\ (pc = "scan" /\ pos < Len(root)) => taken' = Append(taken, pos + 1)]_vars

C8_Witness ==
    /\ pc = "done"
    /\ Len(questions) = 2
    /\ root[resolved[1].answer].attrs.class = <<QUESTION_CLASS>>
    /\ resolved[2].marker = resolved[1].answer + 1

\* the text a child node of an answer paragraph stands for
NodeText(n) == IF n.kind = "text" THEN n.text ELSE texts_joined(n)
IsChoiceNode(n) == n.kind = "text" \/ (n.kind = "element" /\ n.name = "strong")

\* C9: the answer choices of a question are, in the order of the child nodes
\* of its answer paragraph, one per `strong` child (marked as the answer) and
\* one per text child (not marked), with answer-normalized text, those with
\* empty text left out; other element children give none.
C9_AnswerChoices ==
    \A k \in 1..Len(questions) :
       LET ns == root[resolved[k].answer].nodes
           cs == questions[k].answer_choices
           kept == {i \in 1..Len(ns) :
                       IsChoiceNode(ns[i]) /\ normalize_answer_text(NodeText(ns[i])) # <<>>}
       IN  /\ Len(cs) = Cardinality(kept)
           /\ \A i \in kept :
                 LET c == cs[Cardinality({j \in kept : j <= i})] IN
                 /\ c.text = normalize_answer_text(NodeText(ns[i]))
                 /\ c.is_answer = (ns[i].kind = "element")
           /\ \A i \in 1..Len(cs) : cs[i].text # <<>>

Marked(q) == {i \in 1..Len(q.answer_choices) : q.answer_choices[i].is_answer}

C9_Witness ==
    /\ pc = "done"
    /\ Len(questions) = 2
    /\ Marked(questions[1]) = {}
    /\ questions[1].answer_choices # <<>>
    /\ Cardinality(Marked(questions[2])) = 2
    /\ Len(questions[2].answer_choices) < Len(root[resolved[2].answer].nodes)

\* C10, as claimed: the error of a failed extraction names the question being
\* assembled, by its title or by its index.
C10_ErrorNamesQuestion ==
    pc = "failed" =>
        /\ result.err # None
        /\ \E i \in 1..Len(result.err[1].args) :
              \/ result.err[1].args[i] = question_title
              \/ result.err[1].args[i] = <<ToString(Len(questions) + 1)>>

\* C10, amended: the error of a failed extraction is one of five fixed texts,
\* which names the expectation violated and nothing of the question.
C10_ErrorIsFixedText ==
    pc = "failed" =>
        /\ result.err # None
        /\ result.err[1].args = <<>>
        /\ result.err[1].msg \in
              { "no html elements after question title",
                "image div does not have inner figure tag",
                "figure tag does not have inner img tag",
                "img tag does not have src attr",
                "expected to have questions p tag" }

C10_Witness ==
    /\ pc = "failed"
    /\ question_title = <<"T">>
    /\ Len(questions) = 1
    /\ result.err # None
    /\ result.err[1].msg = "expected to have questions p tag"

====
